---- MODULE Spec2Model ----
(***************************************************************************)
(* A model of the ghost object store (package ghost): the Store controller *)
(* (store.go), the per-shard metadata index files (index.go), the random   *)
(* IndexCache (cache.go) and the gob Schema (schema.go).                   *)
(*                                                                         *)
(* Three kinds of state are kept apart:                                    *)
(*   - s          the in-memory Store object of the current session;       *)
(*   - conf, idxFiles, segFiles   the content of the store directory;      *)
(*   - ret, last, puts, scn       what the caller observed (the result of  *)
(*                the last call) and history bookkeeping for the           *)
(*                properties; the program never reads these.               *)
(*                                                                         *)
(* Spec      one caller, every call of the public API as one step; file    *)
(*           operations succeed (the only failing Put is one whose value   *)
(*           the Schema cannot encode).                                    *)
(* SpecBatch, SpecScenario   as Spec, with PutAll and with the calls of    *)
(*           the concrete scenario.                                        *)
(* SpecConc  several callers issuing Put concurrently; a Put is split at   *)
(*           the points where another goroutine can be scheduled.          *)
(* SpecFan   one Get through GetMeta, goroutine by goroutine, with reads   *)
(*           of index files that may fail, next to Puts of other callers.  *)
(* SpecFault one caller; the file operations of Put may fail.              *)
(* SpecRace  several callers issuing Get concurrently, the lock-free test  *)
(*           of the working set statement by statement.                    *)
(***************************************************************************)
EXTENDS Integers, Sequences, FiniteSets, TLC

\* ------------------------------------------------------------------ bounds
MaxCapacity == 1    \* capacities 1..MaxCapacity set on a store built by NewStore
MaxCacheCap == 1    \* WithIndexCache(1..MaxCacheCap)
MaxPuts == 2        \* successful Puts in one history
MaxBatch == 2       \* length of the slices handed to PutAll
NumCallers == 2     \* concurrent callers of SpecConc
MaxFanPuts == 3     \* Puts that built the store on which GetMeta fans out

Ids == {"a", "b", "c"}
Values == {1, 2}
Callers == 1..NumCallers

\* NewStore sets capacity to 1e5 (store.go:73).
DefaultCapacity == 100000

\* A value gob cannot encode (a func or chan value): Marshal returns an error.
Unencodable == -1

\* The zero value of the caller's out variable before a Get.
ZeroOut == 0

VARIABLES
    s,          \* the Store object
    open,       \* TRUE while a session holds an opened Store
    conf,       \* the ledger file "conf": <<>> when absent, else <<info>>
    idxFiles,   \* metadata index files: name -> content
    segFiles,   \* segment files: name -> bytes
    rnd,        \* how many pairs of rand.Int() indexName has drawn
    ret,        \* the last call and what it returned
    last,       \* id -> value of the last successful Put of id (0: never)
    puts,       \* Puts that committed a record since the directory was empty
    scn,        \* progress along the concrete scenario, -1 when off it
    mu,         \* owner of Store.mu, 0 when unlocked
    pc,         \* caller -> position in its call (the concurrent specifications)
    loc,        \* caller -> locals of its call
    fan         \* the GetMeta call in flight: its channels and goroutines

vars == <<s, open, conf, idxFiles, segFiles, rnd, ret, last, puts, scn, mu, pc, loc, fan>>

\* ------------------------------------------------------------------ maps
EmptyMap == [x \in {} |-> 0]

MapPut(f, k, v) == [x \in (DOMAIN f) \cup {k} |-> IF x = k THEN v ELSE f[x]]

Max(a, b) == IF a >= b THEN a ELSE b

\* ------------------------------------------------------------------ Schema
\* GobSchema.Marshal of an int: message length, type id, a zero byte, and the
\* value as a zig-zag unsigned integer (one byte below 128, else 0xFF + byte).
Marshal(v) ==
    IF v = Unencodable THEN [err |-> TRUE, b |-> <<>>]
    ELSE IF 2 * v < 128 THEN [err |-> FALSE, b |-> <<3, 4, 0, 2 * v>>]
    ELSE [err |-> FALSE, b |-> <<4, 4, 0, 255, 2 * v>>]

\* GobSchema.Unmarshal: decodes the first message of b; an empty or short
\* buffer, or a message that is not an int, is an error.
Unmarshal(b) ==
    IF Len(b) = 0 THEN [err |-> TRUE, val |-> ZeroOut]
    ELSE IF b[1] < 3 \/ Len(b) < 1 + b[1] THEN [err |-> TRUE, val |-> ZeroOut]
    ELSE IF b[2] # 4 \/ b[3] # 0 THEN [err |-> TRUE, val |-> ZeroOut]
    ELSE IF b[4] < 128 THEN
        IF b[4] % 2 = 0 THEN [err |-> FALSE, val |-> b[4] \div 2]
        ELSE [err |-> TRUE, val |-> ZeroOut]
    ELSE IF b[4] = 255 /\ b[1] >= 4 /\ b[5] % 2 = 0
        THEN [err |-> FALSE, val |-> b[5] \div 2]
        ELSE [err |-> TRUE, val |-> ZeroOut]

\* ------------------------------------------------------------------ files
\* b[off:off+n] of a Go byte slice (offsets count from 0).
Slice(b, off, n) == SubSeq(b, off + 1, off + n)

\* File.WriteAt(b, off): the bytes land at off..off+len(b), the file grows
\* when needed (a hole reads as zero bytes).
WriteAt(f, b, off) ==
    [i \in 1..Max(Len(f), off + Len(b)) |->
        IF i > off /\ i <= off + Len(b) THEN b[i - off]
        ELSE IF i <= Len(f) THEN f[i] ELSE 0]

\* The JSON document of an index: {"id": {"index":..,"len":..,"offset":..}}.
EncodeIndex(i) ==
    [id \in DOMAIN i |->
        [index |-> i[id].Index, len |-> i[id].Len, offset |-> i[id].Offset]]

DecodeIndex(j) ==
    [id \in DOMAIN j |->
        [Index |-> j[id].index, Len |-> j[id].len, Offset |-> j[id].offset]]

\* An index file: size0 is a file of zero bytes (created, nothing written).
IndexFile(i) == [size0 |-> FALSE, json |-> EncodeIndex(i)]

\* readIndex(name): no file is the empty index; json.Unmarshal of a file of
\* zero bytes fails, and readIndex panics on it.
readIndex(files, name) ==
    IF name \notin DOMAIN files THEN [panic |-> FALSE, i |-> EmptyMap]
    ELSE IF files[name].size0 THEN [panic |-> TRUE, i |-> EmptyMap]
    ELSE [panic |-> FALSE, i |-> DecodeIndex(files[name].json)]

\* index.go:46-64: the file is opened (created when absent), the whole map is
\* read (a file of size 0 is the empty map) and i[id] = m is set.
IndexToWrite(files, name, id, m) ==
    LET cur == IF name \notin DOMAIN files \/ files[name].size0
               THEN EmptyMap
               ELSE DecodeIndex(files[name].json)
    IN MapPut(cur, id, m)

\* index.go:46 and 70: the file exists and holds zero bytes, as after the
\* O_CREATE of a new file or after f.Truncate(0).
Truncated(files, name) ==
    MapPut(files, name, [size0 |-> TRUE, json |-> EncodeIndex(EmptyMap)])

\* index.go:79: f.Write(b) of the encoded map i into the emptied file.
Written(files, name, i) == MapPut(files, name, IndexFile(i))

\* writeIndex(name, id, m): read the whole map, set i[id] = m, truncate and
\* write the whole map back.
writeIndex(files, name, id, m) ==
    Written(Truncated(files, name), name, IndexToWrite(files, name, id, m))

\* ------------------------------------------------------------------ IndexCache
ZeroMeta == [Index |-> 0, Len |-> 0, Offset |-> 0]

\* s.indexCache == nil
NilCache == [on |-> FALSE, capacity |-> 0, lookup |-> EmptyMap, metadata |-> <<>>]

NewIndexCache(capacity) ==
    [on |-> TRUE, capacity |-> capacity, lookup |-> EmptyMap,
     metadata |-> [k \in 1..capacity |-> ZeroMeta]]

\* A faulty variant of CacheSlots: the slot drawn from [0, capacity], one too many.
CacheSlotsInclusive(c) == IF c.on THEN 0..c.capacity ELSE {0}

\* rand.Intn(i.capacity): any slot of [0, capacity).
CacheSlots(c) == IF c.on THEN 0..(c.capacity - 1) ELSE {0}

\* A faulty variant of CachePut: the identifiers that pointed at the slot are dropped
\* from the lookup.
CachePutEvict(c, id, m, idx) ==
    [c EXCEPT !.metadata = [k \in DOMAIN @ |-> IF k = idx + 1 THEN m ELSE @[k]],
              !.lookup = MapPut([x \in {y \in DOMAIN @ : @[y] # idx} |-> @[x]], id, idx)]

\* IndexCache.Put: metadata[idx] = m; lookup[id] = idx. The lookup entry of
\* the identifier that owned the slot before is left in place.
CachePut(c, id, m, idx) ==
    [c EXCEPT !.metadata = [k \in DOMAIN @ |-> IF k = idx + 1 THEN m ELSE @[k]],
              !.lookup = MapPut(@, id, idx)]

\* A faulty variant of CacheGet: the ok of the map lookup is ignored, so that a missing
\* identifier reads slot 0 (the zero value of the lookup).
CacheGetIgnoreOk(c, id) ==
    IF c.on
    THEN [hit |-> TRUE, oob |-> FALSE,
          m |-> c.metadata[(IF id \in DOMAIN c.lookup THEN c.lookup[id] ELSE 0) + 1]]
    ELSE [hit |-> FALSE, oob |-> FALSE, m |-> ZeroMeta]

\* The index cache probe of Store.Get (store.go:291-295), as IndexCache.Get:
\* hit is FALSE for m == nil; oob is a slot index outside the slot array.
CacheGet(c, id) ==
    IF c.on /\ id \in DOMAIN c.lookup
    THEN IF c.lookup[id] + 1 \in DOMAIN c.metadata
         THEN [hit |-> TRUE, oob |-> FALSE, m |-> c.metadata[c.lookup[id] + 1]]
         ELSE [hit |-> FALSE, oob |-> TRUE, m |-> ZeroMeta]
    ELSE [hit |-> FALSE, oob |-> FALSE, m |-> ZeroMeta]

\* ------------------------------------------------------------------ Store
NoWorkingIndex == [idx |-> 0, set |-> FALSE, index |-> EmptyMap]
NoWorkingStore == [idx |-> 0, set |-> FALSE, data |-> <<>>]

\* The zero Store: what s holds before the first Open.
ZeroStore ==
    [inserts |-> 0, capacity |-> 0, size |-> 0, index |-> <<>>, store |-> <<>>,
     indexCache |-> NilCache, files |-> EmptyMap, confHandle |-> FALSE,
     workingIndex |-> NoWorkingIndex, workingStore |-> NoWorkingStore,
     identifiers |-> {}]

\* Store.indexName: "g_" and len(index), len(store), their sum, the capacity
\* and two rand.Int() draws; r stands for the pair of draws, which is taken
\* never to repeat.
indexName(st, r) ==
    <<Len(st.index), Len(st.store), Len(st.index) + Len(st.store), st.capacity, r>>

\* WithIndexCache(capacity) applied to st; option 0 is "no option given".
ApplyOptions(st, opt) ==
    IF opt = 0 THEN st ELSE [st EXCEPT !.indexCache = NewIndexCache(opt)]

\* NewStore(dir, schema, options...); r is the rand position before the call.
NewStore(opt, r) ==
    LET s0 == [ZeroStore EXCEPT !.capacity = DefaultCapacity]
        s1 == [s0 EXCEPT !.index = <<indexName(s0, r)>>]
        s2 == [s1 EXCEPT !.store = <<indexName(s1, r + 1)>>]
    IN ApplyOptions(s2, opt)

\* The info record Flush encodes into "conf" (JSON keys of struct info).
Flush(st) ==
    <<[stores |-> st.store, indexes |-> st.index, capacity |-> st.capacity,
       inserts |-> st.inserts, size |-> st.size]>>

\* A faulty variant of loadIdentifiers: only the index of the active shard is read.
loadIdentifiersLast(st, files) ==
    DOMAIN readIndex(files, st.index[Len(st.index)]).i

\* loadIdentifiers: the keys of every index file named by s.index.
loadIdentifiers(st, files) ==
    UNION {DOMAIN readIndex(files, st.index[k]).i : k \in 1..Len(st.index)}

\* A faulty variant of OpenExisting: the size is taken from info.Inserts.
OpenExistingMixed(info, opt, files) ==
    LET s0 == [ZeroStore EXCEPT !.store = info.stores, !.inserts = info.inserts,
                                !.capacity = info.capacity, !.index = info.indexes,
                                !.size = info.inserts]
        s1 == [ApplyOptions(s0, opt) EXCEPT !.confHandle = TRUE]
    IN [s1 EXCEPT !.identifiers = UNION {DOMAIN readIndex(files, s1.index[k]).i :
                                            k \in 1..Len(s1.index)}]

\* Open when "conf" exists: the Store rebuilt from the decoded info, the
\* options applied, the conf handle kept, the identifiers loaded.
OpenExisting(info, opt, files) ==
    LET s0 == [ZeroStore EXCEPT !.store = info.stores, !.inserts = info.inserts,
                                !.capacity = info.capacity, !.index = info.indexes,
                                !.size = info.size]
        s1 == [ApplyOptions(s0, opt) EXCEPT !.confHandle = TRUE]
    IN [s1 EXCEPT !.identifiers = loadIdentifiers(s1, files)]

\* Open when "conf" does not exist: NewStore(dir, schema), the options are
\* not handed on (store.go:128).
OpenFresh(opt, r) == NewStore(0, r)

\* Store.Contains
Contains(st, id) ==
    \/ id \in st.identifiers
    \/ /\ st.workingStore.idx = st.workingIndex.idx
       /\ st.workingStore.set /\ st.workingIndex.set
       /\ id \in DOMAIN st.workingIndex.index

\* ------------------------------------------------------------------ Put
\* A world is the Store object together with the directory it writes and the
\* bookkeeping of the properties; the steps of Put map a world to a world.
World ==
    [s |-> s, conf |-> conf, idx |-> idxFiles, seg |-> segFiles, rnd |-> rnd,
     last |-> last, puts |-> puts, err |-> FALSE]

\* A faulty variant of PutRotate: the shard is rotated one insert late (> for >=).
PutRotateLate(w) ==
    IF w.s.inserts > w.s.capacity
    THEN LET s1 == [w.s EXCEPT !.inserts = 0, !.size = 0,
                               !.index = Append(@, indexName(w.s, w.rnd))]
             s2 == [s1 EXCEPT !.store = Append(@, indexName(s1, w.rnd + 1))]
         IN [w EXCEPT !.s = s2, !.rnd = @ + 2]
    ELSE w

\* store.go:200-206: reset the counters and append two new names.
PutRotate(w) ==
    IF w.s.inserts >= w.s.capacity
    THEN LET s1 == [w.s EXCEPT !.inserts = 0, !.size = 0,
                               !.index = Append(@, indexName(w.s, w.rnd))]
             s2 == [s1 EXCEPT !.store = Append(@, indexName(s1, w.rnd + 1))]
         IN [w EXCEPT !.s = s2, !.rnd = @ + 2]
    ELSE w

\* A faulty variant of PutAppend: the meta records the insert count as its offset.
PutAppendCountOffset(w, b) ==
    LET idx == Len(w.s.index) - 1
        idxPath == w.s.store[idx + 1]
        old == IF idxPath \in DOMAIN w.seg THEN w.seg[idxPath] ELSE <<>>
        files == IF idxPath \in DOMAIN w.s.files THEN w.s.files
                 ELSE MapPut(w.s.files, idxPath, [pos |-> 0])
    IN [w |-> [w EXCEPT !.s.files = files,
                        !.seg = MapPut(@, idxPath, WriteAt(old, b, w.s.size))],
        m |-> [Index |-> idx, Offset |-> w.s.inserts, Len |-> Len(b)]]

\* store.go:209-236: the active shard, its segment handle (opened and
\* created when not in s.files), WriteAt(b, s.size), and the meta built.
PutAppend(w, b) ==
    LET idx == Len(w.s.index) - 1
        idxPath == w.s.store[idx + 1]
        old == IF idxPath \in DOMAIN w.seg THEN w.seg[idxPath] ELSE <<>>
        files == IF idxPath \in DOMAIN w.s.files THEN w.s.files
                 ELSE MapPut(w.s.files, idxPath, [pos |-> 0])
    IN [w |-> [w EXCEPT !.s.files = files,
                        !.seg = MapPut(@, idxPath, WriteAt(old, b, w.s.size))],
        m |-> [Index |-> idx, Offset |-> w.s.size, Len |-> Len(b)]]

\* A faulty variant of PutMeta: the entry goes to the first name of s.index.
PutMetaFirst(w, id, m) ==
    [w EXCEPT !.idx = writeIndex(@, w.s.index[1], id, m)]

\* PutMeta: writeIndex on the last name of s.index.
PutMeta(w, id, m) ==
    [w EXCEPT !.idx = writeIndex(@, w.s.index[Len(w.s.index)], id, m)]

\* store.go:241-257, after PutMeta has returned nil: the membership set, the
\* index cache, the counters and the ledger.
PutLedger(w1, id, v, m, slot) ==
    LET s1 == [w1.s EXCEPT !.identifiers = @ \cup {id},
                           !.indexCache = IF @.on THEN CachePut(@, id, m, slot) ELSE @]
        s2 == [s1 EXCEPT !.size = @ + m.Len, !.inserts = @ + 1]
    IN [w1 EXCEPT !.s = s2, !.conf = Flush(s2),
                  !.last = [@ EXCEPT ![id] = v], !.puts = @ + 1, !.err = FALSE]

\* store.go:237-257: the index entry, then the rest.
PutCommit(w, id, v, m, slot) == PutLedger(PutMeta(w, id, m), id, v, m, slot)

\* Store.Put as a whole: a value the schema cannot marshal fails before
\* anything is touched.
PutOp(w, id, v, slot) ==
    IF Marshal(v).err THEN [w EXCEPT !.err = TRUE]
    ELSE LET a == PutAppend(PutRotate(w), Marshal(v).b)
         IN PutCommit(a.w, id, v, a.m, slot)

\* Store.PutAll from position k on: Put by Put, stopping at the first error.
RECURSIVE PutAllFrom(_, _, _, _, _)
PutAllFrom(w, ids, vs, slots, k) ==
    IF k > Len(ids) THEN [w EXCEPT !.err = FALSE]
    ELSE LET w1 == PutOp(w, ids[k], vs[k], slots[k])
         IN IF w1.err THEN w1 ELSE PutAllFrom(w1, ids, vs, slots, k + 1)

PutAllOp(w, ids, vs, slots) ==
    IF Len(ids) # Len(vs) THEN [w EXCEPT !.err = TRUE]
    ELSE PutAllFrom(w, ids, vs, slots, 1)

\* ------------------------------------------------------------------ Get
\* The working-set test of store.go:280-282: both halves set, for the same
\* shard, id in the loaded map and its range inside the loaded bytes.
FastPath(st, id) ==
    /\ st.workingStore.idx = st.workingIndex.idx
    /\ st.workingStore.set /\ st.workingIndex.set
    /\ id \in DOMAIN st.workingIndex.index
    /\ st.workingIndex.index[id].Offset + st.workingIndex.index[id].Len
           <= Len(st.workingStore.data)

\* store.go:283: decode data[m.Offset : m.Offset+m.Len].
FastRead(st, id) ==
    Unmarshal(Slice(st.workingStore.data, st.workingIndex.index[id].Offset,
                    st.workingIndex.index[id].Len))

\* GetMeta: one goroutine per name of s.index reads that index; the meta
\* returned is that of the first goroutine to send on c, so any shard that
\* holds id may answer. The set is empty when no shard holds id (nil, nil).
\* No name of s.index is ever a key of s.files, so every goroutine takes the
\* readIndex branch.
GetMeta(st, files, id) ==
    {readIndex(files, st.index[k]).i[id] :
        k \in {j \in 1..Len(st.index) : id \in DOMAIN readIndex(files, st.index[j]).i}}

\* A goroutine of GetMeta panics when its index file has zero bytes.
GetMetaPanics(st, files) ==
    \E k \in 1..Len(st.index) : readIndex(files, st.index[k]).panic

\* ioutil.ReadAll(f): the bytes from the handle's position to the end.
ReadAll(f, pos) == IF pos >= Len(f) THEN <<>> ELSE SubSeq(f, pos + 1, Len(f))

\* store.go:310-342 for a resolved m: the segment handle is opened (and the
\* file created) when not in s.files, ReadAt reads m.Len bytes at m.Offset
\* (fewer bytes there is an error), then the working set is replaced by the
\* shard's index and by what ReadAll returns from the handle's position,
\* and the bytes read are decoded; loaded tells that the working set was
\* replaced.
SlowRead(w, m) ==
    LET storePath == w.s.store[m.Index + 1]
        seg1 == IF storePath \in DOMAIN w.seg THEN w.seg
                ELSE MapPut(w.seg, storePath, <<>>)
        files1 == IF storePath \in DOMAIN w.s.files THEN w.s.files
                  ELSE MapPut(w.s.files, storePath, [pos |-> 0])
        f == seg1[storePath]
        pos == files1[storePath].pos
        i == readIndex(w.idx, w.s.index[m.Index + 1])
        b == Slice(f, m.Offset, m.Len)
    IN IF m.Len > 0 /\ m.Offset + m.Len > Len(f)
       THEN [w |-> [w EXCEPT !.s.files = files1, !.seg = seg1],
             err |-> TRUE, panic |-> FALSE, val |-> ZeroOut, loaded |-> FALSE]
       ELSE IF i.panic
       THEN [w |-> [w EXCEPT !.s.files = files1, !.seg = seg1],
             err |-> TRUE, panic |-> TRUE, val |-> ZeroOut, loaded |-> FALSE]
       ELSE [w |-> [w EXCEPT
                      !.seg = seg1,
                      !.s.files = MapPut(files1, storePath, [pos |-> Max(pos, Len(f))]),
                      !.s.workingIndex = [idx |-> m.Index, set |-> TRUE, index |-> i.i],
                      !.s.workingStore = [idx |-> m.Index, set |-> TRUE,
                                          data |-> ReadAll(f, pos)]],
             err |-> Unmarshal(b).err, panic |-> FALSE, val |-> Unmarshal(b).val,
             loaded |-> TRUE]

\* store.go:288-342, what Get(id) can do under the lock in world w: the
\* index cache is probed first, then the fan-out; no Location is "not found".
SlowOutcomes(w, id) ==
    LET c == CacheGet(w.s.indexCache, id)
        via == IF c.hit THEN "cache" ELSE "fanout"
        ms == IF c.hit THEN {c.m} ELSE GetMeta(w.s, w.idx, id)
    IN IF ~c.hit /\ GetMetaPanics(w.s, w.idx)
       THEN {[w |-> w, err |-> TRUE, panic |-> TRUE, val |-> ZeroOut,
              via |-> via, found |-> FALSE]}
       ELSE IF ms = {}
       THEN {[w |-> w, err |-> FALSE, panic |-> FALSE, val |-> ZeroOut,
              via |-> via, found |-> FALSE]}
       ELSE {[w |-> SlowRead(w, m).w, err |-> SlowRead(w, m).err,
              panic |-> SlowRead(w, m).panic, val |-> SlowRead(w, m).val,
              via |-> via, found |-> ~SlowRead(w, m).err] : m \in ms}

\* What Get(id) can do in world w: the world it leaves and what it returns.
\* Through the working set nothing is written.
GetOutcomes(w, id) ==
    IF FastPath(w.s, id)
    THEN {[w |-> w, err |-> FastRead(w.s, id).err, panic |-> FALSE,
           val |-> FastRead(w.s, id).val, via |-> "fast",
           found |-> ~FastRead(w.s, id).err]}
    ELSE SlowOutcomes(w, id)

\* ------------------------------------------------------------------ history
\* The result of a call as its caller sees it.
Ret(op, id, err, out, via, found, opt) ==
    [op |-> op, id |-> id, err |-> err, out |-> out, via |-> via,
     found |-> found, opt |-> opt, panic |-> FALSE]

\* The concrete scenario of the testable properties, call by call.
Script ==
    << <<"Put", "a", 1>>, <<"Put", "b", 2>>, <<"Put", "c", 3>>,
       <<"Get", "a", 0>>, <<"Get", "b", 0>>, <<"Get", "c", 0>> >>

ScriptPuts == {k \in 1..Len(Script) : Script[k][1] = "Put"}
ScriptGets == {k \in 1..Len(Script) : Script[k][1] = "Get"}

ScnStep(call) ==
    IF scn >= 0 /\ scn < Len(Script) /\ Script[scn + 1] = call THEN scn + 1 ELSE -1

\* ------------------------------------------------------------------ calls
\* The locals of a caller that is in no call: the identifier and value of its
\* call, the encoded bytes, the meta it built or resolved, the index map a
\* writeIndex is about to write, and the shard of the working-set map in
\* which the fast path found its meta (-1: none).
NoLocals ==
    [id |-> "a", v |-> 0, b |-> <<>>, m |-> ZeroMeta, i |-> EmptyMap, k |-> -1]

\* No GetMeta call has been made.
NoFan ==
    [main |-> "none", id |-> "a", n |-> 0, got |-> 0, task |-> <<>>, hit |-> <<>>,
     v |-> <<>>, c |-> <<>>, r |-> <<>>, once |-> "free", errOnce |-> FALSE,
     errSeen |-> FALSE]

Commit(w) ==
    /\ s' = w.s
    /\ conf' = w.conf
    /\ idxFiles' = w.idx
    /\ segFiles' = w.seg
    /\ rnd' = w.rnd
    /\ last' = w.last
    /\ puts' = w.puts

Put(id, v) ==
    /\ open
    /\ \E slot \in CacheSlots(s.indexCache) :
         LET w == PutOp(World, id, v, slot)
         IN /\ Commit(w)
            /\ ret' = Ret("Put", id, w.err, ZeroOut, "none", FALSE, 0)
    /\ scn' = ScnStep(<<"Put", id, v>>)
    /\ UNCHANGED <<open, mu, pc, loc, fan>>

PutAll(ids, vs) ==
    /\ open
    /\ \E slots \in [1..Len(ids) -> CacheSlots(s.indexCache)] :
         LET w == PutAllOp(World, ids, vs, slots)
         IN /\ Commit(w)
            /\ ret' = Ret("PutAll", "a", w.err, ZeroOut, "none", FALSE, 0)
    /\ scn' = -1
    /\ UNCHANGED <<open, mu, pc, loc, fan>>

\* A Get; a panic ends the process.
GetCall(id) ==
    /\ \E o \in GetOutcomes(World, id) :
         /\ Commit(o.w)
         /\ ret' = [Ret("Get", id, o.err, o.val, o.via, o.found, 0)
                        EXCEPT !.panic = o.panic]
         /\ open' = ~o.panic
    /\ scn' = ScnStep(<<"Get", id, 0>>)
    /\ UNCHANGED <<mu, pc, loc, fan>>

\* Get answered from the working set, without the lock.
GetFast(id) == open /\ FastPath(s, id) /\ GetCall(id)

\* Get under the lock: the index cache, else the fan-out over the shards.
GetSlow(id) == open /\ ~FastPath(s, id) /\ GetCall(id)

\* Close: Flush, then every handle of s.files is closed.
Close ==
    /\ open
    /\ conf' = Flush(s)
    /\ open' = FALSE
    /\ ret' = Ret("Close", "a", FALSE, ZeroOut, "none", FALSE, 0)
    /\ scn' = -1
    /\ UNCHANGED <<s, idxFiles, segFiles, rnd, last, puts, mu, pc, loc, fan>>

\* Open(dir, schema, WithIndexCache(opt)), or with no option when opt = 0.
Open(opt) ==
    /\ ~open
    /\ IF conf = <<>>
       THEN s' = OpenFresh(opt, rnd) /\ rnd' = rnd + 2
       ELSE s' = OpenExisting(conf[1], opt, idxFiles) /\ rnd' = rnd
    /\ open' = TRUE
    /\ ret' = Ret("Open", "a", FALSE, ZeroOut, "none", conf # <<>>, opt)
    /\ scn' = -1
    /\ UNCHANGED <<conf, idxFiles, segFiles, last, puts, mu, pc, loc, fan>>

\* ------------------------------------------------------------------ Spec
\* A Store as NewStore(dir, schema, options...) returns it; c is the value of
\* its capacity field: DefaultCapacity, or a smaller one written to the
\* field by code of the package.
InitStore(c, opt) ==
    /\ s = [NewStore(opt, 0) EXCEPT !.capacity = c]
    /\ open = TRUE
    /\ conf = <<>>
    /\ idxFiles = EmptyMap
    /\ segFiles = EmptyMap
    /\ rnd = 2
    /\ last = [id \in Ids |-> 0]
    /\ puts = 0
    /\ mu = 0
    /\ pc = [p \in Callers |-> "idle"]
    /\ loc = [p \in Callers |-> NoLocals]
    /\ fan = NoFan
    /\ ret = Ret("Init", "a", FALSE, ZeroOut, "none", FALSE, 0)

\* An empty directory that no Store has been opened on yet.
InitClosed ==
    /\ s = ZeroStore
    /\ open = FALSE
    /\ conf = <<>>
    /\ idxFiles = EmptyMap
    /\ segFiles = EmptyMap
    /\ rnd = 0
    /\ last = [id \in Ids |-> 0]
    /\ puts = 0
    /\ mu = 0
    /\ pc = [p \in Callers |-> "idle"]
    /\ loc = [p \in Callers |-> NoLocals]
    /\ fan = NoFan
    /\ ret = Ret("Init", "a", FALSE, ZeroOut, "none", FALSE, 0)

Capacities == (1..MaxCapacity) \cup {DefaultCapacity}

Init ==
    /\ scn = -1
    /\ \/ InitClosed
       \/ \E c \in Capacities, opt \in 0..MaxCacheCap : InitStore(c, opt)

Next ==
    \/ \E id \in Ids, v \in Values \cup {Unencodable} : puts < MaxPuts /\ Put(id, v)
    \/ \E id \in Ids : GetFast(id)
    \/ \E id \in Ids : GetSlow(id)
    \/ Close
    \/ \E opt \in 0..MaxCacheCap : Open(opt)

Spec == Init /\ [][Next]_vars

\* ------------------------------------------------------------------ SpecBatch
\* The slices handed to PutAll: every pair of slices of one length, and for
\* slices of different lengths (rejected before they are read) one content.
BatchInputs ==
    UNION {[1..n -> Ids] \X [1..n -> Values \cup {Unencodable}] : n \in 0..MaxBatch}
    \cup {<<[k \in 1..n |-> "a"], [k \in 1..m |-> 1]>> :
             n \in 0..MaxBatch, m \in 0..MaxBatch}

NextBatch ==
    \/ \E in \in BatchInputs : puts + Len(in[1]) <= MaxPuts /\ PutAll(in[1], in[2])
    \/ \E id \in Ids, v \in Values : puts < MaxPuts /\ Put(id, v)
    \/ \E id \in Ids : GetFast(id)
    \/ \E id \in Ids : GetSlow(id)

SpecBatch == Init /\ [][NextBatch]_vars

\* ------------------------------------------------------------------ SpecScenario
\* The calls of the concrete scenario, in any order, on a store whose capacity
\* is the scenario's: 2.
InitScenario ==
    /\ \E opt \in 0..MaxCacheCap : InitStore(2, opt)
    /\ scn = IF s.indexCache.on THEN -1 ELSE 0

NextScenario ==
    \/ \E k \in ScriptPuts : puts < Cardinality(ScriptPuts) /\ Put(Script[k][2], Script[k][3])
    \/ \E k \in ScriptGets : GetFast(Script[k][2])
    \/ \E k \in ScriptGets : GetSlow(Script[k][2])

SpecScenario == InitScenario /\ [][NextScenario]_vars

\* ------------------------------------------------------------------ SpecConc
\* Several goroutines call Put on one Store. A Put is split where another
\* goroutine can run: after Marshal (before s.mu.Lock()), after the lock is
\* taken, after the append and the meta are done, after the commit, and the
\* deferred Unlock.

\* A faulty variant of MuFree: Lock never waits.
MuAlwaysFree(m) == TRUE

\* s.mu.Lock() returns only while no goroutine holds the mutex.
MuFree(m) == m = 0

InFlight == Cardinality({p \in Callers : pc[p] # "idle"})

\* store.go:192-195: Marshal, then on to s.mu.Lock().
CPutStart(p, id, v) ==
    /\ open /\ pc[p] = "idle"
    /\ puts + InFlight < MaxPuts
    /\ ~Marshal(v).err
    /\ loc' = [loc EXCEPT ![p] = [NoLocals EXCEPT !.id = id, !.v = v, !.b = Marshal(v).b]]
    /\ pc' = [pc EXCEPT ![p] = "lock"]
    /\ UNCHANGED <<s, open, conf, idxFiles, segFiles, rnd, ret, last, puts, scn, mu, fan>>

\* store.go:197
CPutLock(p) ==
    /\ pc[p] = "lock" /\ MuFree(mu)
    /\ mu' = p
    /\ pc' = [pc EXCEPT ![p] = "append"]
    /\ UNCHANGED <<s, open, conf, idxFiles, segFiles, rnd, ret, last, puts, scn, loc, fan>>

\* store.go:200-236
CPutAppend(p) ==
    /\ pc[p] = "append"
    /\ LET a == PutAppend(PutRotate(World), loc[p].b)
       IN /\ Commit(a.w)
          /\ loc' = [loc EXCEPT ![p].m = a.m]
    /\ pc' = [pc EXCEPT ![p] = "commit"]
    /\ UNCHANGED <<open, ret, scn, mu, fan>>

\* store.go:237-257
CPutCommit(p) ==
    /\ pc[p] = "commit"
    /\ \E slot \in CacheSlots(s.indexCache) :
         Commit(PutCommit(World, loc[p].id, loc[p].v, loc[p].m, slot))
    /\ pc' = [pc EXCEPT ![p] = "unlock"]
    /\ UNCHANGED <<open, ret, scn, mu, loc, fan>>

\* store.go:198: the deferred s.mu.Unlock().
CPutUnlock(p) ==
    /\ pc[p] = "unlock"
    /\ mu' = 0
    /\ pc' = [pc EXCEPT ![p] = "idle"]
    /\ UNCHANGED <<s, open, conf, idxFiles, segFiles, rnd, ret, last, puts, scn, loc, fan>>

InitConc ==
    /\ scn = -1
    /\ \E c \in Capacities, opt \in 0..MaxCacheCap : InitStore(c, opt)

NextConc ==
    \/ \E p \in Callers, id \in Ids, v \in Values : CPutStart(p, id, v)
    \/ \E p \in Callers : CPutLock(p)
    \/ \E p \in Callers : CPutAppend(p)
    \/ \E p \in Callers : CPutCommit(p)
    \/ \E p \in Callers : CPutUnlock(p)

SpecConc == InitConc /\ [][NextConc]_vars

\* ------------------------------------------------------------------ SpecFan
\* One caller's Get("a") that goes through GetMeta, goroutine by goroutine,
\* and one Put of each other caller. GetMeta starts one goroutine per name of s.index; they
\* report on the channel r (capacity len(s.index)) and hand the meta over on
\* the channel c (capacity 1). GetMeta returns on the first "found" it
\* receives and waits for no goroutine, so goroutines can still be running
\* when Get has returned and released the lock. The ReadFile of readIndex
\* may fail (an I/O error); a file of zero bytes makes readIndex panic, which
\* ends the process: no step is taken once open is FALSE.
FanIds == {"a", "b"}

\* The caller that calls Get.
Getter == CHOOSE p \in Callers : \A q \in Callers : p <= q

FanCapacities == 1..(MaxCapacity + 1)

\* The world of a Store that NewStore has just built in an empty directory.
EmptyWorld(c, opt) ==
    [s |-> [NewStore(opt, 0) EXCEPT !.capacity = c], conf |-> <<>>,
     idx |-> EmptyMap, seg |-> EmptyMap, rnd |-> 2,
     last |-> [id \in Ids |-> 0], puts |-> 0, err |-> FALSE]

\* index.go:91-129: the channels, the Once, errOnce and the goroutines.
NewFan(st, id) ==
    [main |-> "recv", id |-> id, n |-> Len(st.index), got |-> 0,
     task |-> [k \in 1..Len(st.index) |-> "read"],
     hit |-> [k \in 1..Len(st.index) |-> FALSE],
     v |-> [k \in 1..Len(st.index) |-> ZeroMeta],
     c |-> <<>>, r |-> <<>>, once |-> "free", errOnce |-> FALSE, errSeen |-> FALSE]

\* store.go:274-286: Get(id) does not find id through the working set and
\* goes on to s.mu.Lock().
GetStart(p, id) ==
    /\ open /\ pc[p] = "idle" /\ fan.main = "none"
    /\ ~FastPath(s, id)
    /\ loc' = [loc EXCEPT ![p] = [NoLocals EXCEPT !.id = id]]
    /\ pc' = [pc EXCEPT ![p] = "glock"]
    /\ UNCHANGED <<s, open, conf, idxFiles, segFiles, rnd, ret, last, puts, scn, mu, fan>>

\* store.go:288-297 and index.go:91-129: the lock, the index cache probe and,
\* when it misses, the start of GetMeta.
GetLock(p) ==
    /\ pc[p] = "glock" /\ MuFree(mu)
    /\ mu' = p
    /\ LET c == CacheGet(s.indexCache, loc[p].id)
       IN IF c.hit
          THEN /\ loc' = [loc EXCEPT ![p].m = c.m]
               /\ pc' = [pc EXCEPT ![p] = "gread"]
               /\ fan' = fan
          ELSE /\ fan' = NewFan(s, loc[p].id)
               /\ pc' = [pc EXCEPT ![p] = "gwait"]
               /\ loc' = loc
    /\ UNCHANGED <<s, open, conf, idxFiles, segFiles, rnd, ret, last, puts, scn>>

\* index.go:112 with a nil error: the index is read; a file of zero bytes
\* panics. On to m <- v when the index holds id, else to results <- false.
TaskRead(k) ==
    /\ fan.task[k] = "read"
    /\ LET i == readIndex(idxFiles, s.index[k])
       IN IF i.panic
          THEN /\ fan' = [fan EXCEPT !.task[k] = "panic"]
               /\ open' = FALSE
               /\ ret' = [ret EXCEPT !.panic = TRUE]
          ELSE /\ fan' = IF fan.id \in DOMAIN i.i
                         THEN [fan EXCEPT !.task[k] = "sendm", !.hit[k] = TRUE,
                                          !.v[k] = i.i[fan.id]]
                         ELSE [fan EXCEPT !.task[k] = "sendr"]
               /\ UNCHANGED <<open, ret>>
    /\ UNCHANGED <<s, conf, idxFiles, segFiles, rnd, last, puts, scn, mu, pc, loc>>

\* index.go:112-113 with an error: ioutil.ReadFile of an existing index file
\* fails; the goroutine goes to once.Do with a nil index.
TaskReadFails(k) ==
    /\ fan.task[k] = "read"
    /\ s.index[k] \in DOMAIN idxFiles
    /\ fan' = [fan EXCEPT !.task[k] = "once", !.errSeen = TRUE]
    /\ UNCHANGED <<s, open, conf, idxFiles, segFiles, rnd, ret, last, puts, scn, mu, pc, loc>>

\* index.go:114: once.Do runs the function in the first goroutine to call
\* it, returns at once when it has been run, and waits while it is running.
TaskOnce(k) ==
    /\ fan.task[k] = "once" /\ fan.once # "running"
    /\ fan' = IF fan.once = "free"
              THEN [fan EXCEPT !.task[k] = "oncesend", !.once = "running"]
              ELSE [fan EXCEPT !.task[k] = "sendr"]
    /\ UNCHANGED <<s, open, conf, idxFiles, segFiles, rnd, ret, last, puts, scn, mu, pc, loc>>

\* index.go:115: results <- false inside once.Do.
TaskOnceSend(k) ==
    /\ fan.task[k] = "oncesend" /\ Len(fan.r) < fan.n
    /\ fan' = [fan EXCEPT !.task[k] = "errw", !.r = Append(@, FALSE)]
    /\ UNCHANGED <<s, open, conf, idxFiles, segFiles, rnd, ret, last, puts, scn, mu, pc, loc>>

\* index.go:116: errOnce = err, the end of once.Do; then index.go:121 finds
\* nothing in the nil index.
TaskErrWrite(k) ==
    /\ fan.task[k] = "errw"
    /\ fan' = [fan EXCEPT !.task[k] = "sendr", !.errOnce = TRUE, !.once = "done"]
    /\ UNCHANGED <<s, open, conf, idxFiles, segFiles, rnd, ret, last, puts, scn, mu, pc, loc>>

\* index.go:122: m <- v waits while c holds a meta.
TaskSendM(k) ==
    /\ fan.task[k] = "sendm" /\ Len(fan.c) < 1
    /\ fan' = [fan EXCEPT !.task[k] = "sendr", !.c = Append(@, fan.v[k])]
    /\ UNCHANGED <<s, open, conf, idxFiles, segFiles, rnd, ret, last, puts, scn, mu, pc, loc>>

\* index.go:123 and 126: results <- found waits while r is full.
TaskSendR(k) ==
    /\ fan.task[k] = "sendr" /\ Len(fan.r) < fan.n
    /\ fan' = [fan EXCEPT !.task[k] = "done", !.r = Append(@, fan.hit[k])]
    /\ UNCHANGED <<s, open, conf, idxFiles, segFiles, rnd, ret, last, puts, scn, mu, pc, loc>>

\* index.go:132-138: found := <-r; on true, m := <-c and GetMeta returns m;
\* after len(s.index) times false the loop ends.
GetRecv(p) ==
    /\ pc[p] = "gwait" /\ fan.main = "recv"
    /\ Len(fan.r) > 0
    /\ IF Head(fan.r)
       THEN /\ Len(fan.c) > 0
            /\ fan' = [fan EXCEPT !.r = Tail(@), !.c = Tail(@), !.main = "resolved"]
            /\ loc' = [loc EXCEPT ![p].m = Head(fan.c)]
            /\ pc' = [pc EXCEPT ![p] = "gread"]
       ELSE /\ fan' = [fan EXCEPT !.r = Tail(@), !.got = @ + 1,
                                  !.main = IF fan.got + 1 = fan.n THEN "check" ELSE @]
            /\ pc' = [pc EXCEPT ![p] = IF fan.got + 1 = fan.n THEN "gcheck" ELSE @]
            /\ loc' = loc
    /\ UNCHANGED <<s, open, conf, idxFiles, segFiles, rnd, ret, last, puts, scn, mu>>

\* index.go:141-145 and store.go:299-308: GetMeta returns errOnce as it reads
\* it, or nil, nil; Get returns the error, or nil for "not found", and the
\* deferred Unlock runs.
GetCheck(p) ==
    /\ pc[p] = "gcheck"
    /\ ret' = Ret("Get", loc[p].id, fan.errOnce, ZeroOut, "fanout", FALSE, 0)
    /\ fan' = [fan EXCEPT !.main = "returned"]
    /\ mu' = 0
    /\ pc' = [pc EXCEPT ![p] = "idle"]
    /\ UNCHANGED <<s, open, conf, idxFiles, segFiles, rnd, last, puts, scn, loc>>

\* store.go:310-342: the record is read at the resolved meta, the working
\* set is replaced, Get returns and the deferred Unlock runs.
GetRead(p) ==
    /\ pc[p] = "gread"
    /\ LET o == SlowRead(World, loc[p].m)
       IN /\ Commit(o.w)
          /\ ret' = [Ret("Get", loc[p].id, o.err, o.val,
                         IF fan.main = "resolved" THEN "fanout" ELSE "cache",
                         ~o.err, 0) EXCEPT !.panic = o.panic]
          /\ open' = ~o.panic
    /\ fan' = IF fan.main = "resolved" THEN [fan EXCEPT !.main = "returned"] ELSE fan
    /\ mu' = 0
    /\ pc' = [pc EXCEPT ![p] = "idle"]
    /\ UNCHANGED <<scn, loc>>

\* store.go:192-195: Marshal, then on to s.mu.Lock().
PutStart(p, id, v) ==
    /\ open /\ pc[p] = "idle"
    /\ ~Marshal(v).err
    /\ loc' = [loc EXCEPT ![p] = [NoLocals EXCEPT !.id = id, !.v = v, !.b = Marshal(v).b]]
    /\ pc' = [pc EXCEPT ![p] = "lock"]
    /\ UNCHANGED <<s, open, conf, idxFiles, segFiles, rnd, ret, last, puts, scn, mu, fan>>

\* store.go:237 into index.go:46-73: writeIndex opens (creates) the index
\* file of the active shard, reads the map, sets i[id] = m and truncates the
\* file.
PutTruncate(p) ==
    /\ pc[p] = "commit"
    /\ LET name == s.index[Len(s.index)]
       IN /\ loc' = [loc EXCEPT ![p].i = IndexToWrite(idxFiles, name, loc[p].id, loc[p].m)]
          /\ idxFiles' = Truncated(idxFiles, name)
    /\ pc' = [pc EXCEPT ![p] = "write"]
    /\ UNCHANGED <<s, open, conf, segFiles, rnd, ret, last, puts, scn, mu, fan>>

\* index.go:74-80 and store.go:241-257: the map is written into the emptied
\* file, then the membership set, the index cache, the counters, the ledger.
PutWrite(p) ==
    /\ pc[p] = "write"
    /\ \E slot \in CacheSlots(s.indexCache) :
         LET w1 == [World EXCEPT !.idx = Written(@, s.index[Len(s.index)], loc[p].i)]
         IN Commit(PutLedger(w1, loc[p].id, loc[p].v, loc[p].m, slot))
    /\ pc' = [pc EXCEPT ![p] = "unlock"]
    /\ UNCHANGED <<open, ret, scn, mu, loc, fan>>

\* The store after up to MaxFanPuts Puts (the k-th of value k) into a Store
\* from NewStore, no call in progress.
InitFan ==
    /\ \E c \in FanCapacities, n \in 0..MaxFanPuts :
         \E ids \in [1..n -> FanIds] :
            LET w == PutAllOp(EmptyWorld(c, 0), ids, [k \in 1..n |-> k], [k \in 1..n |-> 0])
            IN /\ s = w.s
               /\ conf = w.conf
               /\ idxFiles = w.idx
               /\ segFiles = w.seg
               /\ rnd = w.rnd
               /\ last = w.last
               /\ puts = w.puts
    /\ open = TRUE
    /\ scn = -1
    /\ mu = 0
    /\ pc = [p \in Callers |-> "idle"]
    /\ loc = [p \in Callers |-> NoLocals]
    /\ fan = NoFan
    /\ ret = Ret("Init", "a", FALSE, ZeroOut, "none", FALSE, 0)

NextFan ==
    \/ GetStart(Getter, "a")
    \/ \E p \in Callers : open /\ GetLock(p)
    \/ \E k \in 1..fan.n : open /\ TaskRead(k)
    \/ \E k \in 1..fan.n : open /\ TaskReadFails(k)
    \/ \E k \in 1..fan.n : open /\ TaskOnce(k)
    \/ \E k \in 1..fan.n : open /\ TaskOnceSend(k)
    \/ \E k \in 1..fan.n : open /\ TaskErrWrite(k)
    \/ \E k \in 1..fan.n : open /\ TaskSendM(k)
    \/ \E k \in 1..fan.n : open /\ TaskSendR(k)
    \/ \E p \in Callers : open /\ GetRecv(p)
    \/ \E p \in Callers : open /\ GetCheck(p)
    \/ \E p \in Callers : open /\ GetRead(p)
    \/ \E p \in Callers \ {Getter}, id \in FanIds :
         loc[p].b = <<>> /\ PutStart(p, id, 1)
    \/ \E p \in Callers : open /\ CPutLock(p)
    \/ \E p \in Callers : open /\ CPutAppend(p)
    \/ \E p \in Callers : open /\ PutTruncate(p)
    \/ \E p \in Callers : open /\ PutWrite(p)
    \/ \E p \in Callers : open /\ CPutUnlock(p)

SpecFan == InitFan /\ [][NextFan]_vars

\* ------------------------------------------------------------------ SpecFault
\* One caller; the file operations of Put may fail. A Put returns the first
\* error it meets and undoes nothing of what it did before:
\*   "open"      os.OpenFile of the segment fails (store.go:218-221);
\*   "append"    f.WriteAt fails after writing none or one of the bytes
\*               (store.go:226-229);
\*   "truncate"  writeIndex has opened (created) the index file and
\*               f.Truncate fails (index.go:70-73);
\*   "write"     writeIndex has truncated the file and f.Write fails
\*               (index.go:79-80);
\*   "flush"     the os.OpenFile of Flush fails, "conf" stays as it was
\*               (store.go:172-175, 252-255).
\* The file operations of Get, Close and Open succeed. A panic ends the
\* history.
FaultPoints == {"open", "append", "truncate", "write", "flush"}

\* The segment handle of the shard that is active after the rotation check
\* is not yet in s.files, so that Put has to open the file.
PutOpensSegment(w) ==
    LET w0 == PutRotate(w)
    IN w0.s.store[Len(w0.s.store)] \notin DOMAIN w0.s.files

\* Store.Put that fails at the fault point at, having written j bytes when
\* the fault is in WriteAt. A Put that fails in Flush has committed its
\* record and counts in puts.
PutFailOp(w, id, v, at, j, slot) ==
    IF Marshal(v).err THEN [w EXCEPT !.err = TRUE]
    ELSE LET w0 == PutRotate(w)
             b == Marshal(v).b
             a == PutAppend(w0, b)
             part == PutAppend(w0, SubSeq(b, 1, j))
             name == w0.s.index[Len(w0.s.index)]
         IN CASE at = "open" -> [w0 EXCEPT !.err = TRUE]
              [] at = "append" -> [part.w EXCEPT !.err = TRUE]
              [] at = "truncate" ->
                    [a.w EXCEPT !.err = TRUE,
                                !.idx = IF name \in DOMAIN @ THEN @ ELSE Truncated(@, name)]
              [] at = "write" -> [a.w EXCEPT !.err = TRUE, !.idx = Truncated(@, name)]
              [] at = "flush" ->
                    [PutLedger(PutMeta(a.w, id, a.m), id, v, a.m, slot)
                        EXCEPT !.err = TRUE, !.conf = w.conf, !.last = w.last]

\* The Put that fails at the fault point at, which ret notes in via.
PutFails(id, v, at) ==
    /\ open
    /\ at = "open" => PutOpensSegment(World)
    /\ \E slot \in CacheSlots(s.indexCache), j \in 0..1 :
         /\ at # "append" => j = 0
         /\ Commit(PutFailOp(World, id, v, at, j, slot))
    /\ ret' = Ret("Put", id, TRUE, ZeroOut, at, FALSE, 0)
    /\ scn' = -1
    /\ UNCHANGED <<open, mu, pc, loc, fan>>

\* loadIdentifiers meets an index file of zero bytes: readIndex panics.
OpenPanics ==
    /\ conf # <<>>
    /\ \E k \in 1..Len(conf[1].indexes) : readIndex(idxFiles, conf[1].indexes[k]).panic

\* Open that ends in the panic of readIndex (store.go:161, index.go:29-32).
OpenPanic ==
    /\ ~open /\ OpenPanics
    /\ ret' = [Ret("Open", "a", TRUE, ZeroOut, "none", TRUE, 0) EXCEPT !.panic = TRUE]
    /\ scn' = -1
    /\ UNCHANGED <<s, open, conf, idxFiles, segFiles, rnd, last, puts, mu, pc, loc, fan>>

NextFault ==
    \/ \E id \in Ids, v \in Values : puts < MaxPuts /\ Put(id, v)
    \/ \E id \in Ids, at \in FaultPoints : puts < MaxPuts /\ PutFails(id, 1, at)
    \/ \E id \in Ids : GetFast(id)
    \/ \E id \in Ids : GetSlow(id)
    \/ Close
    \/ \E opt \in 0..MaxCacheCap : ~ret.panic /\ ~OpenPanics /\ Open(opt)
    \/ ~ret.panic /\ OpenPanic

SpecFault == Init /\ [][NextFault]_vars

\* ------------------------------------------------------------------ SpecRace
\* Several callers call Get on one Store, statement by statement. The test
\* and the reads of the working set at store.go:280-283 are made without the
\* lock; another caller's Get replaces the working set under the lock, in
\* two assignments (store.go:339-340). Each read of a field and each
\* assignment of a struct is taken as one step.

\* store.go:280: the test of the tags and flags of the working set.
RCheck(p, id) ==
    /\ open /\ pc[p] = "idle"
    /\ loc' = [loc EXCEPT ![p] = [NoLocals EXCEPT !.id = id]]
    /\ pc' = [pc EXCEPT ![p] =
                IF /\ s.workingStore.idx = s.workingIndex.idx
                   /\ s.workingStore.set /\ s.workingIndex.set
                THEN "flookup" ELSE "rlock"]
    /\ UNCHANGED <<s, open, conf, idxFiles, segFiles, rnd, ret, last, puts, scn, mu, fan>>

\* store.go:281: m, ok := s.workingIndex.index[id]; k remembers the shard
\* of the map that was read.
RLookup(p) ==
    /\ pc[p] = "flookup"
    /\ IF loc[p].id \in DOMAIN s.workingIndex.index
       THEN /\ loc' = [loc EXCEPT ![p].m = s.workingIndex.index[loc[p].id],
                                  ![p].k = s.workingIndex.idx]
            /\ pc' = [pc EXCEPT ![p] = "fbounds"]
       ELSE /\ loc' = loc
            /\ pc' = [pc EXCEPT ![p] = "rlock"]
    /\ UNCHANGED <<s, open, conf, idxFiles, segFiles, rnd, ret, last, puts, scn, mu, fan>>

\* store.go:282: m.Offset+m.Len <= len(s.workingStore.data)
RBounds(p) ==
    /\ pc[p] = "fbounds"
    /\ pc' = [pc EXCEPT ![p] =
                IF loc[p].m.Offset + loc[p].m.Len <= Len(s.workingStore.data)
                THEN "fdecode" ELSE "rlock"]
    /\ UNCHANGED <<s, open, conf, idxFiles, segFiles, rnd, ret, last, puts, scn, mu, loc, fan>>

\* store.go:283: s.workingStore.data is read again and sliced (a range
\* outside the buffer panics), the bytes are decoded and Get returns.
RDecode(p) ==
    /\ pc[p] = "fdecode"
    /\ LET data == s.workingStore.data
           oob == loc[p].m.Offset + loc[p].m.Len > Len(data)
           u == Unmarshal(Slice(data, loc[p].m.Offset, loc[p].m.Len))
       IN /\ ret' = IF oob
                    THEN [Ret("Get", loc[p].id, TRUE, ZeroOut, "fast", FALSE, 0)
                             EXCEPT !.panic = TRUE]
                    ELSE Ret("Get", loc[p].id, u.err, u.val, "fast", ~u.err, 0)
          /\ open' = ~oob
    /\ pc' = [pc EXCEPT ![p] = "idle"]
    /\ loc' = [loc EXCEPT ![p] = NoLocals]
    /\ UNCHANGED <<s, conf, idxFiles, segFiles, rnd, last, puts, scn, mu, fan>>

\* store.go:288-308: the lock, the index cache probe, else the meta that
\* GetMeta returns; without a meta Get returns nil and unlocks.
RLock(p) ==
    /\ pc[p] = "rlock" /\ MuFree(mu)
    /\ LET c == CacheGet(s.indexCache, loc[p].id)
           ms == IF c.hit THEN {c.m} ELSE GetMeta(s, idxFiles, loc[p].id)
       IN IF ms = {}
          THEN /\ ret' = Ret("Get", loc[p].id, FALSE, ZeroOut, "fanout", FALSE, 0)
               /\ pc' = [pc EXCEPT ![p] = "idle"]
               /\ loc' = [loc EXCEPT ![p] = NoLocals]
               /\ mu' = mu
          ELSE /\ \E m \in ms : loc' = [loc EXCEPT ![p].m = m]
               /\ pc' = [pc EXCEPT ![p] = "rload"]
               /\ mu' = p
               /\ ret' = ret
    /\ UNCHANGED <<s, open, conf, idxFiles, segFiles, rnd, last, puts, scn, fan>>

\* store.go:310-338: the segment handle, ReadAt, readIndex and ReadAll; the
\* index map and the bytes are held in locals. An error of ReadAt returns.
RLoad(p) ==
    /\ pc[p] = "rload"
    /\ LET o == SlowRead(World, loc[p].m)
       IN /\ Commit([o.w EXCEPT !.s.workingIndex = s.workingIndex,
                                !.s.workingStore = s.workingStore])
          /\ IF o.loaded
             THEN /\ loc' = [loc EXCEPT ![p].i = o.w.s.workingIndex.index,
                                        ![p].b = o.w.s.workingStore.data,
                                        ![p].v = o.val]
                  /\ pc' = [pc EXCEPT ![p] = "rassign"]
                  /\ UNCHANGED <<ret, mu, open>>
             ELSE /\ ret' = [Ret("Get", loc[p].id, TRUE, ZeroOut,
                                    IF CacheGet(s.indexCache, loc[p].id).hit
                                    THEN "cache" ELSE "fanout", FALSE, 0)
                                EXCEPT !.panic = o.panic]
                  /\ open' = ~o.panic
                  /\ pc' = [pc EXCEPT ![p] = "idle"]
                  /\ loc' = [loc EXCEPT ![p] = NoLocals]
                  /\ mu' = 0
    /\ UNCHANGED <<scn, fan>>

\* store.go:339: s.workingIndex = workingIndex{idx: m.Index, index: i, set: true}
RAssignIndex(p) ==
    /\ pc[p] = "rassign"
    /\ s' = [s EXCEPT !.workingIndex =
                         [idx |-> loc[p].m.Index, set |-> TRUE, index |-> loc[p].i]]
    /\ pc' = [pc EXCEPT ![p] = "rassign2"]
    /\ UNCHANGED <<open, conf, idxFiles, segFiles, rnd, ret, last, puts, scn, mu, loc, fan>>

\* store.go:340: s.workingStore = workingStore{idx: m.Index, data: data, set: true}
RAssignStore(p) ==
    /\ pc[p] = "rassign2"
    /\ s' = [s EXCEPT !.workingStore =
                         [idx |-> loc[p].m.Index, set |-> TRUE, data |-> loc[p].b]]
    /\ pc' = [pc EXCEPT ![p] = "rreturn"]
    /\ UNCHANGED <<open, conf, idxFiles, segFiles, rnd, ret, last, puts, scn, mu, loc, fan>>

\* store.go:342: the bytes read by ReadAt are decoded, Get returns and the
\* deferred Unlock runs.
RReturn(p) ==
    /\ pc[p] = "rreturn"
    /\ LET seg == segFiles[s.store[loc[p].m.Index + 1]]
           u == Unmarshal(Slice(seg, loc[p].m.Offset, loc[p].m.Len))
       IN ret' = Ret("Get", loc[p].id, u.err, u.val,
                     IF CacheGet(s.indexCache, loc[p].id).hit THEN "cache" ELSE "fanout",
                     ~u.err, 0)
    /\ mu' = 0
    /\ pc' = [pc EXCEPT ![p] = "idle"]
    /\ loc' = [loc EXCEPT ![p] = NoLocals]
    /\ UNCHANGED <<s, open, conf, idxFiles, segFiles, rnd, last, puts, scn, fan>>

NextRace ==
    \/ \E p \in Callers, id \in FanIds : RCheck(p, id)
    \/ \E p \in Callers : open /\ RLookup(p)
    \/ \E p \in Callers : open /\ RBounds(p)
    \/ \E p \in Callers : open /\ RDecode(p)
    \/ \E p \in Callers : open /\ RLock(p)
    \/ \E p \in Callers : open /\ RLoad(p)
    \/ \E p \in Callers : open /\ RAssignIndex(p)
    \/ \E p \in Callers : open /\ RAssignStore(p)
    \/ \E p \in Callers : open /\ RReturn(p)

SpecRace == InitFan /\ [][NextRace]_vars

\* ------------------------------------------------------------------ properties
WorldNext ==
    [s |-> s', conf |-> conf', idx |-> idxFiles', seg |-> segFiles', rnd |-> rnd',
     last |-> last', puts |-> puts', err |-> FALSE]

\* C1 (Spec): round trip. A Get of an identifier returns, without error, the
\* value of the last successful Put of that identifier.
RoundTrip ==
    (ret.op = "Get" /\ last[ret.id] # 0)
        => (~ret.err /\ ret.found /\ ret.out = last[ret.id])

\* C2 (Spec): membership persistence. Whenever a Store is open, Contains is
\* true of every identifier that a Put has stored with success, in this
\* session or in an earlier one on the directory: right after the Put, after
\* later Puts and Gets, and on the Store that Open returns after a Close.
MembershipPersistence ==
    open => \A id \in Ids : last[id] # 0 => Contains(s, id)

\* C2 witness: a Store reopened on a directory of two shards that hold
\* identifiers, one of them not in the active shard.
MembershipWitness ==
    /\ open /\ ret.op = "Open" /\ ret.found
    /\ Len(s.index) >= 2
    /\ \E id \in Ids : /\ last[id] # 0
                       /\ id \notin DOMAIN readIndex(idxFiles, s.index[Len(s.index)]).i
                       /\ Contains(s, id)

\* C3 (Spec): ledger round trip. The Store that Open returns after a Close
\* has the capacity, inserts, size, index names and store names that the
\* closed Store held.
LedgerRoundTrip ==
    [][(ret.op = "Close" /\ ret'.op = "Open")
          => /\ s'.capacity = s.capacity
             /\ s'.inserts = s.inserts
             /\ s'.size = s.size
             /\ s'.index = s.index
             /\ s'.store = s.store]_vars

\* C3 witness: a reopened Store of two shards with records in the active one.
LedgerWitness ==
    /\ open /\ ret.op = "Open" /\ ret.found
    /\ Len(s.index) >= 2 /\ s.inserts > 0 /\ s.size > s.inserts

\* C4 as stated (Spec): with capacity C, the first C Puts leave one shard and
\* after the (C+1)-th Put there are two shards and inserts and size are 0.
RotationResetsToZero ==
    open => /\ puts <= s.capacity => Len(s.index) = 1
            /\ puts = s.capacity + 1
                 => (Len(s.index) = 2 /\ s.inserts = 0 /\ s.size = 0)

\* C4 as amended (Spec): with capacity C, the first C Puts leave one shard;
\* the (C+1)-th Put adds one shard and restarts the counters for it: its
\* record is the only one of the new shard, at offset 0, and on its return
\* inserts is 1 and size is the length of its encoding.
RotationRestartsCounters ==
    open => /\ puts <= s.capacity => Len(s.index) = 1
            /\ puts = s.capacity + 1
                 => /\ Len(s.index) = 2 /\ Len(s.store) = 2
                    /\ s.inserts = 1
                    /\ LET i == readIndex(idxFiles, s.index[2]).i
                       IN /\ Cardinality(DOMAIN i) = 1
                          /\ \A id \in DOMAIN i :
                               /\ i[id] = [Index |-> 1, Len |-> s.size, Offset |-> 0]
                               /\ s.size = Len(Marshal(last[id]).b)

\* C4 witness: the (C+1)-th Put has returned.
RotationWitness ==
    open /\ ret.op = "Put" /\ ~ret.err /\ puts = s.capacity + 1 /\ Len(s.index) = 2

\* C5 (SpecConc): offset disjointness. Under every interleaving of the
\* callers, in each shard the Locations of two identifiers cover disjoint
\* byte ranges of the segment, and the bytes in the range of an identifier
\* (in the newest shard that holds it) are the encoding of the value put
\* under it.
Disjoint(m1, m2) ==
    m1.Offset + m1.Len <= m2.Offset \/ m2.Offset + m2.Len <= m1.Offset

Holders(id) == {k \in 1..Len(s.index) : id \in DOMAIN readIndex(idxFiles, s.index[k]).i}

OffsetDisjointness ==
    \A k \in 1..Len(s.index) :
        LET i == readIndex(idxFiles, s.index[k]).i
            seg == IF s.store[k] \in DOMAIN segFiles THEN segFiles[s.store[k]] ELSE <<>>
        IN /\ \A id1 \in DOMAIN i, id2 \in DOMAIN i :
                id1 # id2 => Disjoint(i[id1], i[id2])
           /\ \A id \in DOMAIN i :
                /\ i[id].Len > 0 /\ i[id].Offset + i[id].Len <= Len(seg)
                /\ (\A j \in Holders(id) : j <= k)
                     => Slice(seg, i[id].Offset, i[id].Len) = Marshal(last[id]).b

\* C5 witness: two callers have put distinct identifiers into one shard and
\* both have returned.
OffsetWitness ==
    \E p \in Callers, q \in Callers :
        /\ p # q /\ pc[p] = "idle" /\ pc[q] = "idle"
        /\ loc[p].id # loc[q].id
        /\ loc[p].m.Index = loc[q].m.Index
        /\ LET i == readIndex(idxFiles, s.index[loc[p].m.Index + 1]).i
           IN /\ loc[p].id \in DOMAIN i /\ i[loc[p].id] = loc[p].m
              /\ loc[q].id \in DOMAIN i /\ i[loc[q].id] = loc[q].m

\* C6 as stated (SpecScenario): after the three Puts there are two shards,
\* the three Gets return 1, 2 and 3, each resolved by the fan-out.
ScenarioAllFanOut ==
    /\ scn >= 3 => Len(s.index) = 2
    /\ scn = 4 => (~ret.err /\ ret.out = 1 /\ ret.via = "fanout")
    /\ scn = 5 => (~ret.err /\ ret.out = 2 /\ ret.via = "fanout")
    /\ scn = 6 => (~ret.err /\ ret.out = 3 /\ ret.via = "fanout")

\* C6 as amended (SpecScenario): on a store without index cache, after the
\* three Puts there are two shards and the three Gets return 1, 2 and 3;
\* Get("a") and Get("c") are resolved by the fan-out, Get("b") by the
\* working set that Get("a") loaded.
ScenarioPaths ==
    /\ scn >= 3 => Len(s.index) = 2
    /\ scn = 4 => (~ret.err /\ ret.out = 1 /\ ret.via = "fanout")
    /\ scn = 5 => (~ret.err /\ ret.out = 2 /\ ret.via = "fast")
    /\ scn = 6 => (~ret.err /\ ret.out = 3 /\ ret.via = "fanout")

\* C6 witness: the scenario has run to its last Get.
ScenarioWitness == scn = Len(Script)

\* C7 (Spec): not found is a silent success. A Get of an identifier that no
\* Put has stored returns no error and leaves out, the working set, the index
\* cache, the shard lists and the counters as they were.
NotFoundSilent ==
    [][(ret'.op = "Get" /\ last[ret'.id] = 0)
          => /\ ~ret'.err /\ ~ret'.panic /\ ~ret'.found /\ ret'.out = ZeroOut
             /\ s'.workingIndex = s.workingIndex
             /\ s'.workingStore = s.workingStore
             /\ s'.indexCache = s.indexCache
             /\ s'.index = s.index /\ s'.store = s.store
             /\ s'.size = s.size /\ s'.inserts = s.inserts]_vars

\* C7 witness: a Get of an identifier never put, on a store that holds
\* records, a loaded working set and a populated index cache.
NotFoundWitness ==
    /\ ret.op = "Get" /\ last[ret.id] = 0 /\ ~ret.found
    /\ puts > 0 /\ s.workingIndex.set
    /\ s.indexCache.on /\ DOMAIN s.indexCache.lookup # {}

\* C8 (SpecBatch): PutAll. Slices of different lengths: an error and nothing
\* put. Else the pairs are put in order up to the first Put that fails, whose
\* error is returned; every pair before it is reported by Contains and,
\* unless a later pair of the batch has its identifier, returned by Get.
FirstFailure(vs) ==
    IF \E k \in 1..Len(vs) : Marshal(vs[k]).err
    THEN CHOOSE k \in 1..Len(vs) :
            Marshal(vs[k]).err /\ \A j \in 1..(k - 1) : ~Marshal(vs[j]).err
    ELSE Len(vs) + 1

PutAllContract ==
    [][\A in \in BatchInputs :
          PutAll(in[1], in[2]) =>
             IF Len(in[1]) # Len(in[2])
             THEN ret'.err /\ UNCHANGED <<s, conf, idxFiles, segFiles, puts>>
             ELSE LET k == FirstFailure(in[2])
                  IN /\ ret'.err = (k <= Len(in[2]))
                     /\ puts' = puts + (k - 1)
                     /\ \A j \in 1..(k - 1) :
                          /\ Contains(s', in[1][j])
                          /\ (\A j2 \in (j + 1)..(k - 1) : in[1][j2] # in[1][j])
                               => \A o \in GetOutcomes(WorldNext, in[1][j]) :
                                     ~o.err /\ o.val = in[2][j]]_vars

\* C9 (Spec): index cache bound. The slot array has capacity slots, every
\* lookup entry is a slot index of [0, capacity), and the probe of any
\* identifier stays inside the slot array.
CacheBound ==
    s.indexCache.on =>
        /\ s.indexCache.capacity >= 1
        /\ Len(s.indexCache.metadata) = s.indexCache.capacity
        /\ \A id \in DOMAIN s.indexCache.lookup :
              s.indexCache.lookup[id] \in 0..(s.indexCache.capacity - 1)
        /\ \A id \in Ids : ~CacheGet(s.indexCache, id).oob

\* C9 witness: more identifiers were put than the cache has slots.
CacheWitness ==
    /\ s.indexCache.on
    /\ Cardinality(DOMAIN s.indexCache.lookup) > s.indexCache.capacity

\* C10 (Spec): the Store that Open returns has the index cache of the
\* capacity given by the option, whether or not the directory held a store.
OpenAppliesOptions ==
    (ret.op = "Open" /\ ret.opt # 0)
        => (s.indexCache.on /\ s.indexCache.capacity = ret.opt)

\* C11 (Spec): shards and Locations. The list of index names and the list of
\* segment names have the same length and no name occurs twice; every entry
\* of the index of shard k carries the shard number k (counted from 0), the
\* Location that a Put hands to the index cache carries the number of the
\* shard that is active when the Put returns, and every Location the index
\* cache answers with is below the number of shards.
ShardLocation ==
    /\ Len(s.index) = Len(s.store)
    /\ \A j \in 1..Len(s.index), k \in 1..Len(s.store) :
          /\ s.index[j] # s.store[k]
          /\ j # k => (s.index[j] # s.index[k] /\ s.store[j] # s.store[k])
    /\ \A k \in 1..Len(s.index) :
          LET i == readIndex(idxFiles, s.index[k]).i
          IN \A id \in DOMAIN i : i[id].Index = k - 1
    /\ s.indexCache.on =>
          /\ \A id \in DOMAIN s.indexCache.lookup :
                CacheGet(s.indexCache, id).m.Index < Len(s.index)
          /\ (ret.op = "Put" /\ ~ret.err)
                => CacheGet(s.indexCache, ret.id).m.Index = Len(s.index) - 1

\* C11 witness: a Put has rotated to a second shard, its entry is in the
\* index of that shard and in the index cache.
ShardLocationWitness ==
    /\ open /\ ret.op = "Put" /\ ~ret.err /\ s.indexCache.on
    /\ Len(s.index) = 2
    /\ ret.id \in DOMAIN readIndex(idxFiles, s.index[2]).i
    /\ readIndex(idxFiles, s.index[2]).i[ret.id].Index = 1
    /\ CacheGet(s.indexCache, ret.id).m.Index = 1
    /\ DOMAIN readIndex(idxFiles, s.index[1]).i # {}

\* C12 (Spec): the index cache keeps stale lookup entries. When a Put of id2
\* draws the slot that the lookup entry of another identifier id1 points at,
\* id1 stays in the lookup, still points at that slot, and the probe of id1
\* answers with the Location of id2.
StaleLookupKept ==
    [][(ret'.op = "Put" /\ ~ret'.err /\ s.indexCache.on)
          => LET slot == s'.indexCache.lookup[ret'.id]
                 loc2 == readIndex(idxFiles', s'.index[Len(s'.index)]).i[ret'.id]
             IN \A id1 \in DOMAIN s.indexCache.lookup :
                   (id1 # ret'.id /\ s.indexCache.lookup[id1] = slot)
                      => /\ id1 \in DOMAIN s'.indexCache.lookup
                         /\ s'.indexCache.lookup[id1] = slot
                         /\ CacheGet(s'.indexCache, id1)
                               = [hit |-> TRUE, oob |-> FALSE, m |-> loc2]]_vars

\* C12 witness: after the Put of id2 the lookup holds more identifiers than
\* there are slots, and the probe of id1 answers with the Location of id2,
\* which is not the Location the index of id1's shard holds.
StaleLookupWitness ==
    /\ open /\ ret.op = "Put" /\ ~ret.err /\ s.indexCache.on
    /\ Cardinality(DOMAIN s.indexCache.lookup) > s.indexCache.capacity
    /\ \E id1 \in DOMAIN s.indexCache.lookup :
          /\ id1 # ret.id
          /\ s.indexCache.lookup[id1] = s.indexCache.lookup[ret.id]
          /\ CacheGet(s.indexCache, id1).m
                = readIndex(idxFiles, s.index[Len(s.index)]).i[ret.id]
          /\ \A k \in Holders(id1) :
                readIndex(idxFiles, s.index[k]).i[id1] # CacheGet(s.indexCache, id1).m

\* C13 (Spec): working-set refresh. After every Get that resolves a Location
\* under the lock (through the index cache or the fan-out) and reads its
\* record, the working set is set, both halves name one shard k (for the
\* fan-out, a shard whose index holds the identifier), its map is the whole
\* persisted index of shard k and its buffer is the whole segment of shard k.
WorkingSetRefresh ==
    [][(ret'.op = "Get" /\ ret'.via \in {"cache", "fanout"} /\ ret'.found)
          => LET k == s'.workingIndex.idx + 1
             IN /\ s'.workingIndex.set /\ s'.workingStore.set
                /\ s'.workingStore.idx = s'.workingIndex.idx
                /\ ret'.via = "fanout" => k \in Holders(ret'.id)
                /\ s'.workingIndex.index = readIndex(idxFiles', s'.index[k]).i
                /\ s'.workingStore.data = segFiles'[s'.store[k]]]_vars

\* C14 (SpecFan): fan-out error surfacing. When a goroutine of the fan-out
\* has met an I/O error reading its index file, the Get that launched the
\* fan-out returns an error.
FanOutErrorSurfaces ==
    [][(fan.main # "returned" /\ fan'.main = "returned" /\ fan.errSeen)
          => ret'.err]_vars

\* C15 (SpecFan): lock serialization. No read of an index file made for a
\* Get falls between the truncation and the rewrite of that file by a Put:
\* no goroutine of the fan-out reads an index file of zero bytes (on which
\* readIndex panics).
IndexReadsSerialized ==
    \A k \in 1..fan.n :
        /\ fan.task[k] # "panic"
        /\ fan.task[k] = "read" => ~readIndex(idxFiles, s.index[k]).panic

\* C16 (SpecFault): membership reflects what is persisted. Whenever a Store
\* is open and no call is in progress, its membership set is the union of
\* the key sets of the persisted indexes of its shards, and Contains(id) is
\* true exactly of the identifiers some listed index holds.
PersistedKeys ==
    UNION {DOMAIN readIndex(idxFiles, s.index[k]).i : k \in 1..Len(s.index)}

MembershipDurable ==
    open => /\ s.identifiers = PersistedKeys
            /\ \A id \in Ids : Contains(s, id) <=> id \in PersistedKeys

\* C17 (SpecFault): committed records are immutable. No call changes the
\* index entry of an identifier, or the segment bytes in its range, unless
\* the call is a Put of that identifier.
SegmentOf(files, k) ==
    IF s'.store[k] \in DOMAIN files THEN files[s'.store[k]] ELSE <<>>

CommittedImmutable ==
    [][\A k \in 1..Len(s'.index) :
          LET before == readIndex(idxFiles, s'.index[k]).i
              after == readIndex(idxFiles', s'.index[k]).i
          IN \A id \in DOMAIN before :
                ~(ret'.op = "Put" /\ ret'.id = id)
                   => /\ id \in DOMAIN after
                      /\ after[id] = before[id]
                      /\ Slice(SegmentOf(segFiles', k), before[id].Offset, before[id].Len)
                           = Slice(SegmentOf(segFiles, k), before[id].Offset, before[id].Len)]_vars

\* C18 (Spec): the fast path agrees with the slow path. Whenever the working
\* set answers Get(id), the value it decodes is the value that the fan-out
\* over the persisted indexes and the read of the segment would return for
\* id in the same state.
FastSlowEquivalent ==
    open => \A id \in Ids :
               FastPath(s, id) =>
                  /\ GetMeta(s, idxFiles, id) # {}
                  /\ \A m \in GetMeta(s, idxFiles, id) :
                        /\ SlowRead(World, m).err = FastRead(s, id).err
                        /\ SlowRead(World, m).val = FastRead(s, id).val

\* C19 (SpecRace): no torn read of the working set. A Get that answers from
\* the working set decodes bytes of the buffer of the same shard as the map
\* in which it found the Location of its identifier.
NoTornRead ==
    [][\A p \in Callers :
          (pc[p] = "fdecode" /\ pc'[p] = "idle") => loc[p].k = s.workingStore.idx]_vars

\* C20 (SpecFan): the fan-out terminates. While GetMeta waits, it can
\* receive or some goroutine can take a step; and once Get has returned, no
\* goroutine is left at a send on a full channel: GetMeta is the only
\* receiver of c and r, so such a goroutine stays blocked for ever.
TaskCanStep(k) ==
    \/ fan.task[k] \in {"read", "errw"}
    \/ fan.task[k] = "once" /\ fan.once # "running"
    \/ fan.task[k] \in {"oncesend", "sendr"} /\ Len(fan.r) < fan.n
    \/ fan.task[k] = "sendm" /\ Len(fan.c) < 1

TaskAtFullChannel(k) ==
    \/ fan.task[k] \in {"oncesend", "sendr"} /\ Len(fan.r) >= fan.n
    \/ fan.task[k] = "sendm" /\ Len(fan.c) >= 1

FanOutTerminates ==
    open =>
       /\ fan.main = "recv" => (Len(fan.r) > 0 \/ \E k \in 1..fan.n : TaskCanStep(k))
       /\ fan.main = "returned" => \A k \in 1..fan.n : ~TaskAtFullChannel(k)

====
